---- MODULE Spec2Model ----
(***************************************************************************)
(* lifeBall sports summer camp server.                                     *)
(*                                                                         *)
(* Modelled:                                                               *)
(*   - the connection cache, DbConnect() of src/config/dbConfig.js, as the *)
(*     event loop runs it: one step per stretch of code between awaits;    *)
(*   - the auth gate of src/index.js: verifyJWT and Express's dispatch of  *)
(*     a route's handler chain;                                            *)
(*   - verifyAdmin and the route bodies of src/index.js, each awaiting     *)
(*     DbConnect() and then its collection operations;                     *)
(*   - verifyAdmin and the route bodies of the earlier revision,           *)
(*     src/unnamed/part_001;                                               *)
(*   - POST /add-user of src/index.js, its requests running concurrently.  *)
(***************************************************************************)
EXTENDS Naturals, Integers, Sequences, FiniteSets, TLC

\* ------------------------------------------------------------------ bounds
\* Number of DbConnect() invocations made during a run.
MaxCalls == 3

\* `let db = null`: the empty cache, and the absent client of a call.
NULL == 0

Calls == 1..MaxCalls

VARIABLES
    DB_USER,    \* process.env.DB_USER is set
    DB_PASS,    \* process.env.DB_PASS is set
    db,         \* the module variable db: NULL or the Db of a client
    nClients,   \* MongoClients constructed so far; client k's Db is handle k
    open,       \* clients whose connect() resolved (never closed by the code)
    pinged,     \* clients whose ping resolved
    pc,         \* per call: where the async function is suspended
    client,     \* per call: the local `client`, NULL before construction
    ret,        \* per call: the value the promise resolved with
    err,        \* per call: the error the promise rejected with
    since,      \* history: what happened since the last call started:
                \* "failed" once an attempt rejected, "connected" once a
                \* connect resolved after that, "none" otherwise
    after       \* history, per call: the value of since when it started

dbVars == <<DB_USER, DB_PASS, db, nClients, open, pinged, pc, client, ret, err,
            since, after>>

VARIABLES
    route,          \* per request: the route it matched, "none" before arrival
    authorization,  \* per request: req.headers.authorization
    decoded,        \* per request: req.decoded
    invoked,        \* per request: the handlers Express has invoked, in order
    nexts,          \* per request: next() calls made by its handlers
    status,         \* per request: status of the response written, 0 if none
    message,        \* per request: message of the response body
    sent,           \* per request: number of responses written
    error           \* per request: the error field of the response body

gateVars == <<route, authorization, decoded, invoked, nexts, status, message,
              sent, error>>

VARIABLES
    param,          \* per request: req.query.userEmail, req.body.reqData
    rpc,            \* per request: where its async handler is suspended
    callOf,         \* per request: the DbConnect() call it awaits, 0 if none
    lookups,        \* per request: findOne calls verifyAdmin made on users
    found,          \* per request: the role verifyAdmin's findOne returned
    ops,            \* per request: operations its route body issued
    result,         \* per request: what a successful res.send carried
    users,          \* the users collection, in insertion order
    resolved,       \* per request: members of its Promise.all that resolved
    adds            \* per POST /add-user request: its handler's state

appVars == <<param, resolved, adds, rpc, callOf, lookups, found, ops, result,
             users>>

\* ------------------------------------------------------- connection cache

\* dbConfig.js:25 with `||` replaced by `&&` (the test index.js:4 uses).
CredsMissingBoth == ~DB_USER /\ ~DB_PASS

\* dbConfig.js:25  !process.env.DB_USER || !process.env.DB_PASS
CredsMissing == ~DB_USER \/ ~DB_PASS

\* Calls are numbered in the order they are made.
NotStarted(c) ==
    /\ pc[c] = "idle"
    /\ \A d \in Calls : d < c => pc[d] # "idle"

\* dbConfig.js:22  if (db) return db;
ReturnCached(c) ==
    /\ NotStarted(c)
    /\ db # NULL
    /\ pc' = [pc EXCEPT ![c] = "returned"]
    /\ ret' = [ret EXCEPT ![c] = db]
    /\ after' = [after EXCEPT ![c] = since]
    /\ since' = "none"
    /\ UNCHANGED <<DB_USER, DB_PASS, db, nClients, open, pinged, client, err>>

DbConnectCached(c) == ReturnCached(c) /\ UNCHANGED <<gateVars, appVars>>

\* dbConfig.js:25-27  throw new Error("Missing MongoDB credentials ...")
\* (outside the try block: the catch does not run)
ThrowNoCreds(c) ==
    /\ NotStarted(c)
    /\ db = NULL
    /\ CredsMissing
    /\ pc' = [pc EXCEPT ![c] = "thrown"]
    /\ err' = [err EXCEPT ![c] = "MissingCredentials"]
    /\ after' = [after EXCEPT ![c] = since]
    /\ since' = "none"
    /\ UNCHANGED <<DB_USER, DB_PASS, db, nClients, open, pinged, client, ret>>

DbConnectNoCreds(c) == ThrowNoCreds(c) /\ UNCHANGED <<gateVars, appVars>>

\* dbConfig.js:29-42  new MongoClient(uri, ...); await client.connect()
Construct(c) ==
    /\ NotStarted(c)
    /\ db = NULL
    /\ ~CredsMissing
    /\ nClients' = nClients + 1
    /\ client' = [client EXCEPT ![c] = nClients + 1]
    /\ pc' = [pc EXCEPT ![c] = "connect"]
    /\ after' = [after EXCEPT ![c] = since]
    /\ since' = "none"
    /\ UNCHANGED <<DB_USER, DB_PASS, db, open, pinged, ret, err>>

DbConnectConstruct(c) == Construct(c) /\ UNCHANGED <<gateVars, appVars>>

\* dbConfig.js:21-42  DbConnect() called from a handler: the function runs
\* to its first await, return or throw within the caller's step.
Call(c) == ReturnCached(c) \/ ThrowNoCreds(c) \/ Construct(c)

\* The synchronous head of one DbConnect() invocation.
DbConnect(c) ==
    \/ DbConnectCached(c)
    \/ DbConnectNoCreds(c)
    \/ DbConnectConstruct(c)

\* A catch block that only logs, as the earlier revision's did.
CatchKeep(c, e) ==
    /\ db' = db
    /\ pc' = [pc EXCEPT ![c] = "thrown"]
    /\ err' = [err EXCEPT ![c] = e]
    /\ since' = "failed"

\* dbConfig.js:49-55  db = null; throw error
Catch(c, e) ==
    /\ db' = NULL
    /\ pc' = [pc EXCEPT ![c] = "thrown"]
    /\ err' = [err EXCEPT ![c] = e]
    /\ since' = "failed"

\* dbConfig.js:42-46  connect() resolved: db = client.db("lifeBall"); the
\* ping is issued and the function suspends again.
ConnectResolved(c) ==
    /\ pc[c] = "connect"
    /\ open' = open \cup {client[c]}
    /\ db' = client[c]
    /\ pc' = [pc EXCEPT ![c] = "ping"]
    /\ since' = IF since = "failed" THEN "connected" ELSE since
    /\ UNCHANGED <<DB_USER, DB_PASS, nClients, pinged, client, ret, err, after>>
    /\ UNCHANGED <<gateVars, appVars>>

\* dbConfig.js:42,49-55  connect() rejected
ConnectRejected(c) ==
    /\ pc[c] = "connect"
    /\ Catch(c, "ConnectionFailure")
    /\ UNCHANGED <<DB_USER, DB_PASS, nClients, open, pinged, client, ret, after>>
    /\ UNCHANGED <<gateVars, appVars>>

\* dbConfig.js:46-48  ping resolved: return db  (the module variable, as it
\* is now, not the Db this call created)
PingResolved(c) ==
    /\ pc[c] = "ping"
    /\ pinged' = pinged \cup {client[c]}
    /\ ret' = [ret EXCEPT ![c] = db]
    /\ pc' = [pc EXCEPT ![c] = "returned"]
    /\ UNCHANGED <<DB_USER, DB_PASS, db, nClients, open, client, err, since, after>>
    /\ UNCHANGED <<gateVars, appVars>>

\* dbConfig.js:46,49-55  ping rejected
PingRejected(c) ==
    /\ pc[c] = "ping"
    /\ Catch(c, "ConnectionFailure")
    /\ UNCHANGED <<DB_USER, DB_PASS, nClients, open, pinged, client, ret, after>>
    /\ UNCHANGED <<gateVars, appVars>>

DbInit ==
    /\ DB_USER \in BOOLEAN
    /\ DB_PASS \in BOOLEAN
    /\ db = NULL
    /\ nClients = 0
    /\ open = {}
    /\ pinged = {}
    /\ pc = [c \in Calls |-> "idle"]
    /\ client = [c \in Calls |-> NULL]
    /\ ret = [c \in Calls |-> NULL]
    /\ err = [c \in Calls |-> "none"]
    /\ since = "none"
    /\ after = [c \in Calls |-> "none"]

DbNext ==
    \E c \in Calls :
        \/ DbConnect(c)
        \/ ConnectResolved(c)
        \/ ConnectRejected(c)
        \/ PingResolved(c)
        \/ PingRejected(c)

\* ---------------------------------------------------------------- auth gate
\* Number of HTTP requests received during a run.
MaxReqs == 1

Reqs == 1..MaxReqs

\* A JavaScript string is a sequence of characters; undefined is a value no
\* string equals.
Undefined == <<"#undefined">>

SP == " "
TAB == "\t"

\* The Authorization header values requests carry: absent, empty, one
\* segment, "B v" (valid token), "B x" (bad signature), "B e" (expired),
\* "B vv" (malformed), two spaces, trailing space, a valid token in first
\* place, a tab inside the first space-delimited segment, three segments,
\* and two more valid tokens, "B w" and "B n".
Headers ==
    { Undefined,
      << >>,
      <<"B">>,
      <<"B", SP, "v">>,
      <<"B", SP, "x">>,
      <<"B", SP, "e">>,
      <<"B", SP, "v", "v">>,
      <<"B", SP, SP, "v">>,
      <<"B", SP>>,
      <<"v", SP, "x">>,
      <<"B", TAB, "x", SP, "v">>,
      <<"B", SP, "v", SP, "x">>,
      <<"B", SP, "w">>,
      <<"B", SP, "n">> }

\* The headers of the form "Bearer <token>", and no header at all.
BearerHeaders ==
    { Undefined,
      <<"B", SP, "x">>,
      <<"B", SP, "v">>,
      <<"B", SP, "w">>,
      <<"B", SP, "n">> }

\* The headers with a token that verifies: two of them for a@x.com.
AdminHeaders ==
    { <<"B", SP, "v">>,
      <<"B", SP, "u">>,
      <<"B", SP, "w">>,
      <<"B", SP, "n">> }

\* index.js:157-350  app.<method>(path, ...handlers): the handler chain of
\* each route; "body" is the route's own async handler.
GuardedRoutes ==
    { "GET /users", "GET /cart-data", "POST /add-to-cart",
      "DELETE /delete-cart-item/:id", "POST /create-payment-intent",
      "POST /payments", "GET /payment-history", "GET /enrolled-classes" }

AdminRoutes == { "PATCH /update-role" }

OpenRoutes == { "GET /classes" }

Routes == GuardedRoutes \cup AdminRoutes \cup OpenRoutes

\* index.js:157-350 with verifyAdmin registered on every guarded route.
ChainAllAdmin(rt) ==
    IF rt \in AdminRoutes \cup GuardedRoutes
    THEN <<"verifyJWT", "verifyAdmin", "body">>
    ELSE <<"body">>

\* index.js:236 with verifyAdmin registered after the body.
ChainAdminLast(rt) ==
    IF rt \in AdminRoutes THEN <<"verifyJWT", "body", "verifyAdmin">>
    ELSE IF rt \in GuardedRoutes THEN <<"verifyJWT", "body">>
    ELSE <<"body">>

Chain(rt) ==
    IF rt \in AdminRoutes THEN <<"verifyJWT", "verifyAdmin", "body">>
    ELSE IF rt \in GuardedRoutes THEN <<"verifyJWT", "body">>
    ELSE <<"body">>

\* The first index of character ch in string s, 0 if there is none.
RECURSIVE indexOf(_, _, _)
indexOf(s, ch, i) ==
    IF i > Len(s) THEN 0
    ELSE IF s[i] = ch THEN i
    ELSE indexOf(s, ch, i + 1)

\* String.prototype.split(sep) for a one-character separator: the pieces
\* between consecutive separators, empty pieces kept; "" gives [""].
RECURSIVE split(_, _)
split(s, sep) ==
    LET i == indexOf(s, sep, 1) IN
    IF i = 0 THEN <<s>>
    ELSE <<SubSeq(s, 1, i - 1)>> \o split(SubSeq(s, i + 1, Len(s)), sep)

\* An array index past the end reads undefined.
At(arr, k) == IF k <= Len(arr) THEN arr[k] ELSE Undefined

\* index.js:34 with index 0 in place of 1: the scheme taken for the token.
tokenFirst(a) == At(split(a, SP), 1)

\* index.js:34  authorization.split(" ")[1]
token(a) == At(split(a, SP), 2)

\* req.decoded before verifyJWT has set it.
NoPrincipal == [email |-> "undefined", role |-> "undefined"]

\* index.js:85-91  POST /jwt signs whatever payload the caller supplies:
\* the payload each validly signed, unexpired token carries. "v" was issued
\* for a@x.com, "w" for b@x.com with a role claim of the caller's choosing,
\* "n" for a payload without an email, "u" for a@x.com again, this time
\* with a role claim.
ValidTokens == { <<"v">>, <<"w">>, <<"n">>, <<"u">> }

Payload(t) ==
    IF t = <<"v">> THEN [email |-> "a@x.com", role |-> "undefined"]
    ELSE IF t = <<"u">> THEN [email |-> "a@x.com", role |-> "admin"]
    ELSE IF t = <<"w">> THEN [email |-> "b@x.com", role |-> "admin"]
    ELSE [email |-> "undefined", role |-> "guest"]

\* index.js:36  jwt.verify(token, secret, cb): cb(err) for every token that
\* is undefined, malformed, expired or wrongly signed, cb(null, decoded)
\* for the others.
jwtVerify(t) ==
    IF t \in ValidTokens
    THEN [err |-> FALSE, decoded |-> Payload(t)]
    ELSE [err |-> TRUE, decoded |-> NoPrincipal]

\* index.js:32
MsgNoHeader == "Unauthorized Access Request"
\* index.js:40
MsgBadToken == "Unauthorized Access. May be a problem with your token"

\* res.status(code).send({ error: true, message: msg })
Send(r, code, msg) ==
    /\ status' = [status EXCEPT ![r] = code]
    /\ message' = [message EXCEPT ![r] = msg]
    /\ error' = [error EXCEPT ![r] = TRUE]
    /\ sent' = [sent EXCEPT ![r] = @ + 1]

\* index.js:29 written as a test for the empty string only.
IsEmptyString(a) == a = << >>

\* index.js:29  !authorization : undefined and "" are both falsy.
NotAuthorization(a) == a = Undefined \/ a = << >>

\* Number of POST /add-user requests received during a run.
MaxAdds == 2

Adders == 1..MaxAdds

\* A POST /add-user request that has not arrived.
Idle == [pc |-> "idle", email |-> "undefined", call |-> 0,
         existing |-> FALSE, answer |-> "none"]

\* The inputs a route's body reads besides req.decoded: index.js:259
\* req.query.userEmail, index.js:238 req.body.reqData = { role, _id }.
NoParam == [userEmail |-> "undefined", role |-> "undefined", id |-> 0]

Emails == { "a@x.com", "b@x.com" }

Params(rt) ==
    IF rt = "DELETE /delete-cart-item/:id"
    THEN { [NoParam EXCEPT !.userEmail = e] : e \in Emails }
    ELSE IF rt = "PATCH /update-role"
    THEN { [NoParam EXCEPT !.role = ro, !.id = i] :
             ro \in {"admin", "student"}, i \in 1..2 }
    ELSE { NoParam }

\* A request arrives and is matched to its route.
ReceiveOn(r, rts, hs) ==
    /\ route[r] = "none"
    /\ \E rt \in rts, a \in hs :
        /\ route' = [route EXCEPT ![r] = rt]
        /\ authorization' = [authorization EXCEPT ![r] = a]
        /\ \E q \in Params(rt) : param' = [param EXCEPT ![r] = q]
    /\ UNCHANGED <<decoded, invoked, nexts, status, message, sent, error>>
    /\ UNCHANGED <<rpc, callOf, lookups, found, ops, result, users>>
    /\ UNCHANGED <<resolved, adds>>
    /\ UNCHANGED dbVars

Receive(r, hs) == ReceiveOn(r, Routes, hs)

\* A request with any of the headers arrives.
Arrive(r) == Receive(r, Headers)

\* A request for an admin route arrives with a token that verifies.
ArriveAdmin(r) == ReceiveOn(r, AdminRoutes, AdminHeaders)

\* A request arrives from a client that sends "Bearer <token>" or no header.
ArriveBearer(r) == Receive(r, BearerHeaders)

\* The handler Express invokes next for r: the first one on arrival, then
\* one more for each next() call; "none" while a handler has not called
\* next() or the chain is used up.
Due(r) ==
    IF /\ route[r] # "none"
       /\ Len(invoked[r]) = nexts[r]
       /\ Len(invoked[r]) < Len(Chain(route[r]))
    THEN Chain(route[r])[Len(invoked[r]) + 1]
    ELSE "none"

\* index.js:44 copying the email claim only.
AttachEmail(d) == [NoPrincipal EXCEPT !.email = d.email]

\* index.js:44  req.decoded = decoded
Attach(d) == d

\* verifyJWT with a DbConnect()-like reset of the cache in it.
JWTResetsCache ==
    /\ db' = NULL
    /\ UNCHANGED <<DB_USER, DB_PASS, nClients, open, pinged, pc, client, ret,
                   err, since, after>>

\* index.js:26-47  verifyJWT makes no DbConnect() call and assigns none of
\* dbConfig.js's state.
JWTFrame == UNCHANGED dbVars

\* index.js:26-47  verifyJWT(req, res, next)
verifyJWT(r) ==
    /\ Due(r) = "verifyJWT"
    /\ invoked' = [invoked EXCEPT ![r] = Append(@, "verifyJWT")]
    /\ IF NotAuthorization(authorization[r])
       THEN /\ Send(r, 401, MsgNoHeader)
            /\ UNCHANGED <<decoded, nexts>>
       ELSE LET v == jwtVerify(token(authorization[r])) IN
            IF v.err
            THEN /\ Send(r, 401, MsgBadToken)
                 /\ UNCHANGED <<decoded, nexts>>
            ELSE /\ decoded' = [decoded EXCEPT ![r] = Attach(v.decoded)]
                 /\ nexts' = [nexts EXCEPT ![r] = @ + 1]
                 /\ UNCHANGED <<status, message, sent, error>>
    /\ UNCHANGED <<route, authorization>>
    /\ UNCHANGED appVars
    /\ JWTFrame

\* index.js:50,157-350  Express enters the handler after verifyJWT (or the
\* only handler of an unguarded route): verifyAdmin or the route body.
Enter(r) ==
    /\ Due(r) \in {"verifyAdmin", "body"}
    /\ invoked' = [invoked EXCEPT ![r] = Append(@, Due(r))]
    /\ UNCHANGED <<route, authorization, decoded, nexts, status, message,
                   sent, error>>
    /\ UNCHANGED appVars
    /\ UNCHANGED dbVars

\* ------------------------------------------------ verifyAdmin, route bodies

\* index.js:63
MsgNotAdmin == "Forbidden Request. Not an admin"
\* index.js:261
MsgForbidden == "Forbidden Request"
\* index.js:68 (and each route's catch block)
MsgInternal == "Internal server error"

\* A catch block that reports the exception it caught.
MsgOfError(e) == e

\* index.js:66-69  the message of the 500 response, whatever was thrown
MsgOfCatch(e) == MsgInternal

\* index.js:66-69, 126-129, ...  catch (error) { res.status(500).send(...) }
Catch500(r, e) ==
    /\ Send(r, 500, MsgOfCatch(e))
    /\ rpc' = [rpc EXCEPT ![r] = "done"]

\* What `await DbConnect()` gives the handler of r: "pending" while the
\* call runs, the error it rejected with, or "ok"; a call that resolved
\* with null makes db.collection(...) throw a TypeError.
Awaited(r) ==
    LET c == callOf[r] IN
    IF pc[c] = "thrown" THEN err[c]
    ELSE IF pc[c] = "returned" THEN (IF ret[c] = NULL THEN "TypeError" ELSE "ok")
    ELSE "pending"

\* collection.findOne({ email: e }): the position of the first document
\* whose email is e, 0 if there is none. An undefined e is sent as null and
\* matches the documents without an email.
FindOne(coll, e) ==
    LET hits == { i \in 1..Len(coll) : coll[i].email = e } IN
    IF hits = {} THEN 0 ELSE CHOOSE i \in hits : \A j \in hits : i <= j

\* index.js:60  userFromDb?.role
RoleAt(coll, i) == IF i = 0 THEN "undefined" ELSE coll[i].role

\* index.js:60 comparing the role claim of the token instead.
IsAdminByClaim(r, role) == decoded[r].role = "admin"

\* index.js:60 accepting the role claim of the token as well.
IsAdminEither(r, role) == role = "admin" \/ decoded[r].role = "admin"

\* index.js:60  userFromDb?.role !== "admin", negated
IsAdmin(r, role) == role = "admin"

\* index.js:58 with the document read a second time.
FindTwice(n) == n + 2

\* index.js:58  one findOne call
Find(n) == n + 1

\* index.js:61-64 without the return: next() runs after the 403.
FallThrough(n) == n + 1

\* index.js:64  return; : the next() of line 65 is not reached
Return(n) == n

\* index.js:50-53  verifyAdmin up to `await DbConnect()`
verifyAdmin(r) ==
    /\ Due(r) = "verifyAdmin"
    /\ invoked' = [invoked EXCEPT ![r] = Append(@, "verifyAdmin")]
    /\ \E c \in Calls : Call(c) /\ callOf' = [callOf EXCEPT ![r] = c]
    /\ rpc' = [rpc EXCEPT ![r] = "admin:db"]
    /\ UNCHANGED <<route, authorization, decoded, nexts, status, message,
                   sent, error>>
    /\ UNCHANGED <<param, resolved, adds, lookups, found, ops, result, users>>

\* index.js:53-58  DbConnect() settled: the catch block, or findOne issued
verifyAdminConnected(r) ==
    /\ rpc[r] = "admin:db"
    /\ Awaited(r) # "pending"
    /\ IF Awaited(r) = "ok"
       THEN /\ lookups' = [lookups EXCEPT ![r] = Find(@)]
            /\ rpc' = [rpc EXCEPT ![r] = "admin:find"]
            /\ UNCHANGED <<status, message, sent, error>>
       ELSE /\ Catch500(r, Awaited(r))
            /\ UNCHANGED lookups
    /\ UNCHANGED <<route, authorization, decoded, invoked, nexts>>
    /\ UNCHANGED <<param, resolved, adds, callOf, found, ops, result, users>>
    /\ UNCHANGED dbVars

\* index.js:58-65  findOne resolved: 403, or next()
verifyAdminFound(r) ==
    /\ rpc[r] = "admin:find"
    /\ LET i == FindOne(users, decoded[r].email)
           role == RoleAt(users, i) IN
        /\ found' = [found EXCEPT ![r] = IF i = 0 THEN "null" ELSE role]
        /\ IF IsAdmin(r, role)
           THEN /\ nexts' = [nexts EXCEPT ![r] = @ + 1]
                /\ rpc' = [rpc EXCEPT ![r] = "none"]
                /\ UNCHANGED <<status, message, sent, error>>
           ELSE /\ Send(r, 403, MsgNotAdmin)
                /\ rpc' = [rpc EXCEPT ![r] = "done"]
                /\ nexts' = [nexts EXCEPT ![r] = Return(@)]
    /\ UNCHANGED <<route, authorization, decoded, invoked>>
    /\ UNCHANGED <<param, resolved, adds, callOf, lookups, ops, result, users>>
    /\ UNCHANGED dbVars

\* index.js:58,66-69  findOne rejected
verifyAdminFindRejected(r) ==
    /\ rpc[r] = "admin:find"
    /\ Catch500(r, "MongoError")
    /\ UNCHANGED <<route, authorization, decoded, invoked, nexts>>
    /\ UNCHANGED <<param, resolved, adds, callOf, lookups, found, ops, result, users>>
    /\ UNCHANGED dbVars

\* index.js:94-370  the operations each route body awaits, in order, once
\* getCollections() has resolved.
RouteOps(rt) ==
    CASE rt = "GET /users" -> <<"users.find">>
      [] rt = "GET /cart-data" -> <<"cart.find">>
      [] rt = "POST /add-to-cart" -> <<"cart.insertOne">>
      [] rt = "PATCH /update-role" -> <<"users.updateOne">>
      [] rt = "DELETE /delete-cart-item/:id" -> <<"cart.deleteOne">>
      [] rt = "POST /create-payment-intent" -> <<"stripe.paymentIntents.create">>
      [] rt = "POST /payments" -> <<"payments.insertOne", "cart.deleteMany">>
      [] rt = "GET /payment-history" -> <<"payments.find">>
      [] rt = "GET /enrolled-classes" -> <<"payments.find", "classes.find">>
      [] OTHER -> <<"classes.find">>

\* Number of classes in paymentData.orderedClassesId.
Ordered == 2

\* index.js:317-324  classesId.map(async ...): one updateOne per ordered
\* class, all started before the first of them settles.
Members(rt) ==
    IF rt = "POST /payments"
    THEN [i \in 1..Ordered |-> "classes.updateOne"]
    ELSE << >>

\* A promise that resolves with the first member that does.
AnyResolved(rt, n) == n >= 1

\* index.js:317  Promise.all resolves when every member has resolved
AllResolved(rt, n) == n = Len(Members(rt))

\* index.js:280-285  the one body that calls no getCollections()
NoDbRoutes == { "POST /create-payment-intent" }

\* index.js:259-262  req.decoded.email !== userEmail
Mismatch(r) ==
    /\ route[r] = "DELETE /delete-cart-item/:id"
    /\ decoded[r].email # param[r].userEmail

\* index.js:157-370  a route body up to its first await
body(r) ==
    /\ Due(r) = "body"
    /\ invoked' = [invoked EXCEPT ![r] = Append(@, "body")]
    /\ IF Mismatch(r)
       THEN /\ Send(r, 403, MsgForbidden)
            /\ rpc' = [rpc EXCEPT ![r] = "done"]
            /\ UNCHANGED <<callOf, ops>>
            /\ UNCHANGED dbVars
       ELSE IF route[r] \in NoDbRoutes
       THEN /\ ops' = [ops EXCEPT ![r] = <<RouteOps(route[r])[1]>>]
            /\ rpc' = [rpc EXCEPT ![r] = "body:op"]
            /\ UNCHANGED <<callOf, status, message, sent, error>>
            /\ UNCHANGED dbVars
       ELSE /\ \E c \in Calls : Call(c) /\ callOf' = [callOf EXCEPT ![r] = c]
            /\ rpc' = [rpc EXCEPT ![r] = "body:db"]
            /\ UNCHANGED <<ops, status, message, sent, error>>
    /\ UNCHANGED <<route, authorization, decoded, nexts>>
    /\ UNCHANGED <<param, resolved, adds, lookups, found, result, users>>

\* index.js:73-82  getCollections() settled: the catch block, or the first
\* operation issued
bodyConnected(r) ==
    /\ rpc[r] = "body:db"
    /\ Awaited(r) # "pending"
    /\ IF Awaited(r) = "ok"
       THEN /\ ops' = [ops EXCEPT ![r] = <<RouteOps(route[r])[1]>>]
            /\ rpc' = [rpc EXCEPT ![r] = "body:op"]
            /\ UNCHANGED <<status, message, sent, error>>
       ELSE /\ Catch500(r, Awaited(r))
            /\ UNCHANGED ops
    /\ UNCHANGED <<route, authorization, decoded, invoked, nexts>>
    /\ UNCHANGED <<param, resolved, adds, callOf, lookups, found, result, users>>
    /\ UNCHANGED dbVars

\* index.js:241-247 with the $set dropped.
KeepRole(coll, q) == coll

\* index.js:241-247  updateOne({ _id }, { $set: { role } })
UpdateRole(coll, q) ==
    IF q.id \in 1..Len(coll)
    THEN [coll EXCEPT ![q.id] = [@ EXCEPT !.role = q.role]]
    ELSE coll

\* index.js:157-370  the awaited operation resolved: the next one is
\* issued, or res.send(result) after the last
bodyOpResolved(r) ==
    /\ rpc[r] = "body:op"
    /\ LET k == Len(ops[r])
           all == RouteOps(route[r]) IN
        /\ users' = IF ops[r][k] = "users.updateOne"
                    THEN UpdateRole(users, param[r]) ELSE users
        /\ IF k < Len(all)
           THEN /\ ops' = [ops EXCEPT ![r] = Append(@, all[k + 1])]
                /\ UNCHANGED <<rpc, status, sent, result>>
           ELSE IF Members(route[r]) # << >>
           THEN /\ ops' = [ops EXCEPT ![r] = @ \o Members(route[r])]
                /\ rpc' = [rpc EXCEPT ![r] = "body:all"]
                /\ UNCHANGED <<status, sent, result>>
           ELSE /\ status' = [status EXCEPT ![r] = 200]
                /\ sent' = [sent EXCEPT ![r] = @ + 1]
                /\ result' = [result EXCEPT ![r] = ops[r][k]]
                /\ rpc' = [rpc EXCEPT ![r] = "done"]
                /\ UNCHANGED ops
    /\ UNCHANGED <<route, authorization, decoded, invoked, nexts, message, error>>
    /\ UNCHANGED <<param, resolved, adds, callOf, lookups, found>>
    /\ UNCHANGED dbVars

\* index.js:317-326  a member of the Promise.all resolved; with the last
\* one the await returns and res.send({ paymentInsertionRes, ... }) runs
bodyAllResolved(r) ==
    /\ rpc[r] = "body:all"
    /\ resolved[r] < Len(Members(route[r]))
    /\ resolved' = [resolved EXCEPT ![r] = @ + 1]
    /\ IF AllResolved(route[r], resolved[r] + 1)
       THEN /\ status' = [status EXCEPT ![r] = 200]
            /\ sent' = [sent EXCEPT ![r] = @ + 1]
            /\ result' = [result EXCEPT ![r] = "payments.insertOne"]
            /\ rpc' = [rpc EXCEPT ![r] = "done"]
       ELSE UNCHANGED <<status, sent, result, rpc>>
    /\ UNCHANGED <<route, authorization, decoded, invoked, nexts, message, error>>
    /\ UNCHANGED <<param, adds, callOf, lookups, found, ops, users>>
    /\ UNCHANGED dbVars

\* index.js:317,327-330  a member rejected: Promise.all rejects at once,
\* whatever the other members do, and the catch block answers
bodyAllRejected(r) ==
    /\ rpc[r] = "body:all"
    /\ resolved[r] < Len(Members(route[r]))
    /\ Catch500(r, "MongoError")
    /\ UNCHANGED <<route, authorization, decoded, invoked, nexts>>
    /\ UNCHANGED <<param, resolved, adds, callOf, lookups, found, ops, result, users>>
    /\ UNCHANGED dbVars

\* index.js:157-370  the awaited operation rejected: the catch block
bodyOpRejected(r) ==
    /\ rpc[r] = "body:op"
    /\ Catch500(r, "MongoError")
    /\ UNCHANGED <<route, authorization, decoded, invoked, nexts>>
    /\ UNCHANGED <<param, resolved, adds, callOf, lookups, found, ops, result, users>>
    /\ UNCHANGED dbVars

\* ------------------------------------- the revision of src/unnamed/part_001
\* run() awaits DbConnect() once and registers the routes with the
\* collections it obtained: a handler makes no DbConnect() call. Handlers
\* have no try/catch; Express 4 does not observe the promise of an async
\* handler, so a rejection leaves the request as it is ("rejected").

\* part_001:64-69  verifyAdmin up to `await userCollection.findOne(query)`
verifyAdminOld(r) ==
    /\ Due(r) = "verifyAdmin"
    /\ invoked' = [invoked EXCEPT ![r] = Append(@, "verifyAdmin")]
    /\ lookups' = [lookups EXCEPT ![r] = @ + 1]
    /\ rpc' = [rpc EXCEPT ![r] = "admin:find"]
    /\ UNCHANGED <<route, authorization, decoded, nexts, status, message,
                   sent, error>>
    /\ UNCHANGED <<param, resolved, adds, callOf, found, ops, result, users>>
    /\ UNCHANGED dbVars

\* part_001:69  findOne rejected: the handler's promise rejects
verifyAdminOldRejected(r) ==
    /\ rpc[r] = "admin:find"
    /\ rpc' = [rpc EXCEPT ![r] = "rejected"]
    /\ UNCHANGED gateVars
    /\ UNCHANGED <<param, resolved, adds, callOf, lookups, found, ops, result, users>>
    /\ UNCHANGED dbVars

\* part_001:203-224  POST /payments awaits the insert and the deletion; the
\* updates are started inside forEach and not awaited.
RouteOpsOld(rt) ==
    IF rt = "POST /payments"
    THEN <<"payments.insertOne", "cart.deleteMany">>
    ELSE RouteOps(rt)

\* part_001:217-222  classesId.forEach(async ...)
Unawaited(rt) == Members(rt)

\* part_001:157-261  a route body up to its first await; the 403 of
\* delete-cart-item (part_001:177-179) is sent without return, and the
\* handler goes on to its deleteOne.
bodyOld(r) ==
    /\ Due(r) = "body"
    /\ invoked' = [invoked EXCEPT ![r] = Append(@, "body")]
    /\ IF Mismatch(r)
       THEN Send(r, 403, MsgForbidden)
       ELSE UNCHANGED <<status, message, sent, error>>
    /\ ops' = [ops EXCEPT ![r] = <<RouteOpsOld(route[r])[1]>>]
    /\ rpc' = [rpc EXCEPT ![r] = "body:op"]
    /\ UNCHANGED <<route, authorization, decoded, nexts>>
    /\ UNCHANGED <<param, resolved, adds, callOf, lookups, found, result, users>>
    /\ UNCHANGED dbVars

\* part_001:157-261  the awaited operation resolved: the next one is
\* issued, or res.send(result) after the last; res.send on a response that
\* was already sent throws and the handler's promise rejects.
bodyOldOpResolved(r) ==
    /\ rpc[r] = "body:op"
    /\ LET k == Len(ops[r])
           all == RouteOpsOld(route[r]) IN
        /\ users' = IF ops[r][k] = "users.updateOne"
                    THEN UpdateRole(users, param[r]) ELSE users
        /\ IF k < Len(all)
           THEN /\ ops' = [ops EXCEPT ![r] = Append(@, all[k + 1])]
                /\ UNCHANGED <<rpc, status, sent, result>>
           ELSE /\ ops' = [ops EXCEPT ![r] = @ \o Unawaited(route[r])]
                /\ IF sent[r] = 0
                   THEN /\ status' = [status EXCEPT ![r] = 200]
                        /\ sent' = [sent EXCEPT ![r] = @ + 1]
                        /\ result' = [result EXCEPT ![r] = ops[r][k]]
                        /\ rpc' = [rpc EXCEPT ![r] = "done"]
                   ELSE /\ rpc' = [rpc EXCEPT ![r] = "rejected"]
                        /\ UNCHANGED <<status, sent, result>>
    /\ UNCHANGED <<route, authorization, decoded, invoked, nexts, message, error>>
    /\ UNCHANGED <<param, resolved, adds, callOf, lookups, found>>
    /\ UNCHANGED dbVars

\* part_001:157-261  the awaited operation rejected: the promise rejects
bodyOldOpRejected(r) ==
    /\ rpc[r] = "body:op"
    /\ rpc' = [rpc EXCEPT ![r] = "rejected"]
    /\ UNCHANGED gateVars
    /\ UNCHANGED <<param, resolved, adds, callOf, lookups, found, ops, result, users>>
    /\ UNCHANGED dbVars

\* ------------------------------------------------------- POST /add-user
\* index.js:202-219. The route has no middleware; its requests are kept
\* apart from the gated ones.

\* What the handlers of the gated requests own.
reqVars == <<gateVars, param, resolved, rpc, callOf, lookups, found, ops, result>>

\* What `await getCollections()` gives the handler of a.
AwaitedBy(a) ==
    LET c == adds[a].call IN
    IF pc[c] = "thrown" THEN err[c]
    ELSE IF pc[c] = "returned" THEN (IF ret[c] = NULL THEN "TypeError" ELSE "ok")
    ELSE "pending"

\* index.js:215-218  the catch block
addUserCatch(a) ==
    adds' = [adds EXCEPT ![a].pc = "done", ![a].answer = MsgInternal]

\* index.js:202-205  the handler up to `await getCollections()`
addUser(a) ==
    /\ adds[a].pc = "idle"
    /\ \E e \in Emails, c \in Calls :
        /\ Call(c)
        /\ adds' = [adds EXCEPT ![a].pc = "db", ![a].email = e, ![a].call = c]
    /\ UNCHANGED <<reqVars, users>>

\* index.js:205-208  getCollections() settled: the catch block, or findOne
\* issued
addUserConnected(a) ==
    /\ adds[a].pc = "db"
    /\ AwaitedBy(a) # "pending"
    /\ IF AwaitedBy(a) = "ok"
       THEN adds' = [adds EXCEPT ![a].pc = "find"]
       ELSE addUserCatch(a)
    /\ UNCHANGED <<reqVars, users, dbVars>>

\* index.js:208-213  findOne resolved: "User Already Exist", or insertOne
\* issued
addUserFound(a) ==
    /\ adds[a].pc = "find"
    /\ IF FindOne(users, adds[a].email) # 0
       THEN adds' = [adds EXCEPT ![a].pc = "done", ![a].existing = TRUE,
                                 ![a].answer = "User Already Exist"]
       ELSE adds' = [adds EXCEPT ![a].pc = "insert"]
    /\ UNCHANGED <<reqVars, users, dbVars>>

\* index.js:208,215-218  findOne rejected
addUserFindRejected(a) ==
    /\ adds[a].pc = "find"
    /\ addUserCatch(a)
    /\ UNCHANGED <<reqVars, users, dbVars>>

\* index.js:213-214  insertOne resolved: the document is in the collection
addUserInserted(a) ==
    /\ adds[a].pc = "insert"
    /\ users' = Append(users, [email |-> adds[a].email, role |-> "student"])
    /\ adds' = [adds EXCEPT ![a].pc = "done", ![a].answer = "inserted"]
    /\ UNCHANGED <<reqVars, dbVars>>

\* index.js:213,215-218  insertOne rejected
addUserInsertRejected(a) ==
    /\ adds[a].pc = "insert"
    /\ addUserCatch(a)
    /\ UNCHANGED <<reqVars, users, dbVars>>

\* The response of r went out and its handlers are through: Express keeps
\* nothing of the request, and the next one is served.
Forget(r) ==
    /\ sent[r] > 0
    /\ rpc[r] \in {"none", "done"}
    /\ route' = [route EXCEPT ![r] = "none"]
    /\ authorization' = [authorization EXCEPT ![r] = Undefined]
    /\ decoded' = [decoded EXCEPT ![r] = NoPrincipal]
    /\ invoked' = [invoked EXCEPT ![r] = << >>]
    /\ nexts' = [nexts EXCEPT ![r] = 0]
    /\ status' = [status EXCEPT ![r] = 0]
    /\ message' = [message EXCEPT ![r] = ""]
    /\ sent' = [sent EXCEPT ![r] = 0]
    /\ error' = [error EXCEPT ![r] = FALSE]
    /\ param' = [param EXCEPT ![r] = NoParam]
    /\ resolved' = [resolved EXCEPT ![r] = 0]
    /\ rpc' = [rpc EXCEPT ![r] = "none"]
    /\ callOf' = [callOf EXCEPT ![r] = 0]
    /\ lookups' = [lookups EXCEPT ![r] = 0]
    /\ found' = [found EXCEPT ![r] = "none"]
    /\ ops' = [ops EXCEPT ![r] = << >>]
    /\ result' = [result EXCEPT ![r] = "none"]
    /\ UNCHANGED <<users, adds>>
    /\ UNCHANGED dbVars

\* The users collections a run starts from: documents { email, role } in
\* insertion order; "undefined" stands for a field the document lacks.
InitialUsers ==
    { <<[email |-> "a@x.com", role |-> "admin"],
        [email |-> "b@x.com", role |-> "student"]>>,
      <<[email |-> "a@x.com", role |-> "student"],
        [email |-> "b@x.com", role |-> "undefined"]>>,
      <<[email |-> "undefined", role |-> "admin"],
        [email |-> "b@x.com", role |-> "admin"]>> }

GateInit ==
    /\ route = [r \in Reqs |-> "none"]
    /\ authorization = [r \in Reqs |-> Undefined]
    /\ decoded = [r \in Reqs |-> NoPrincipal]
    /\ invoked = [r \in Reqs |-> << >>]
    /\ nexts = [r \in Reqs |-> 0]
    /\ status = [r \in Reqs |-> 0]
    /\ message = [r \in Reqs |-> ""]
    /\ sent = [r \in Reqs |-> 0]
    /\ error = [r \in Reqs |-> FALSE]
    /\ param = [r \in Reqs |-> NoParam]
    /\ resolved = [r \in Reqs |-> 0]
    /\ adds = [a \in Adders |-> Idle]
    /\ rpc = [r \in Reqs |-> "none"]
    /\ callOf = [r \in Reqs |-> 0]
    /\ lookups = [r \in Reqs |-> 0]
    /\ found = [r \in Reqs |-> "none"]
    /\ ops = [r \in Reqs |-> << >>]
    /\ result = [r \in Reqs |-> "none"]
    /\ users \in InitialUsers

GateNext ==
    \E r \in Reqs :
        \/ Arrive(r)
        \/ verifyJWT(r)
        \/ Enter(r)

vars == <<dbVars, gateVars, appVars>>

Init == DbInit /\ GateInit

\* The connection cache under any callers.
Next == DbNext

Spec == Init /\ [][Next]_vars

\* The auth gate, the cache left alone.
NextGate == GateNext

\* The gate reads neither the environment nor the users collection.
InitGate ==
    /\ Init
    /\ ~CredsMissing
    /\ \E i \in 1..Len(users) : users[i].role = "student"

SpecGate == InitGate /\ [][NextGate]_vars

\* The server of index.js: requests through verifyJWT, verifyAdmin and the
\* route bodies, each awaiting DbConnect(), next to DbConnect() calls of
\* other callers.
NextApp ==
    \/ DbNext
    \/ \E r \in Reqs :
        \/ ArriveBearer(r)
        \/ verifyJWT(r)
        \/ verifyAdmin(r)
        \/ verifyAdminConnected(r)
        \/ verifyAdminFound(r)
        \/ verifyAdminFindRejected(r)
        \/ body(r)
        \/ bodyConnected(r)
        \/ bodyOpResolved(r)
        \/ bodyOpRejected(r)
        \/ bodyAllResolved(r)
        \/ bodyAllRejected(r)

\* The server of part_001, its routes registered.
NextOld ==
    \E r \in Reqs :
        \/ Arrive(r)
        \/ verifyJWT(r)
        \/ verifyAdminOld(r)
        \/ verifyAdminFound(r)
        \/ verifyAdminOldRejected(r)
        \/ bodyOld(r)
        \/ bodyOldOpResolved(r)
        \/ bodyOldOpRejected(r)

\* run() registered the routes: DbConnect() had the credentials.
InitOld == Init /\ ~CredsMissing

SpecOld == InitOld /\ [][NextOld]_vars

\* Requests for the admin route served one after the other, each running
\* its own DbConnect() calls.
NextRoles ==
    \/ \E c \in Calls :
        \/ ConnectResolved(c)
        \/ ConnectRejected(c)
        \/ PingResolved(c)
        \/ PingRejected(c)
    \/ \E r \in Reqs :
        \/ ArriveAdmin(r)
        \/ verifyJWT(r)
        \/ verifyAdmin(r)
        \/ verifyAdminConnected(r)
        \/ verifyAdminFound(r)
        \/ verifyAdminFindRejected(r)
        \/ body(r)
        \/ bodyConnected(r)
        \/ bodyOpResolved(r)
        \/ bodyOpRejected(r)
        \/ Forget(r)

\* The credentials are set: a request fails on a rejected connect or ping.
InitRoles == Init /\ ~CredsMissing

SpecRoles == InitRoles /\ [][NextRoles]_vars

\* Of the environments without credentials, the one lacking DB_USER.
InitApp == Init /\ DB_PASS

SpecApp == InitApp /\ [][NextApp]_vars

\* POST /add-user requests, each with its own DbConnect() call.
NextUsers ==
    \/ \E c \in Calls :
        \/ ConnectResolved(c)
        \/ ConnectRejected(c)
        \/ PingResolved(c)
        \/ PingRejected(c)
    \/ \E a \in Adders :
        \/ addUser(a)
        \/ addUserConnected(a)
        \/ addUserFound(a)
        \/ addUserFindRejected(a)
        \/ addUserInserted(a)
        \/ addUserInsertRejected(a)

SpecUsers == InitApp /\ [][NextUsers]_vars

\* ================================================================== claims

\* The handles DbConnect() calls have resolved with so far.
Given == { ret[c] : c \in { d \in Calls : pc[d] = "returned" } } \ {NULL}

\* The calls that found the cache empty and built a client of their own.
Attempts == { c \in Calls : client[c] # NULL }

InFlight == { c \in Calls : pc[c] \in {"connect", "ping"} }

\* C1 (memoization): once some call has returned a handle, every call that
\* starts afterwards returns at once, with that same handle, and no client
\* is constructed for it.
C1_Memoization ==
    [][ \A c \in Calls :
          (pc[c] = "idle" /\ pc'[c] # "idle" /\ Given # {})
          => /\ pc'[c] = "returned"
             /\ \A h \in Given : ret'[c] = h
             /\ nClients' = nClients ]_vars

\* C2 (no half-initialized handle): a handle a call has returned is the Db
\* of a client whose ping has succeeded.
C2_NoHalfInitialized ==
    \A c \in Calls :
        (pc[c] = "returned" /\ ret[c] # NULL) => ret[c] \in pinged

\* C3 (failure surfaced): a call that resolved normally resolved with a
\* handle, never with null.
C3_FailureSurfaced ==
    \A c \in Calls : pc[c] = "returned" => ret[c] # NULL

\* What C4 says of a call c that started after a failed attempt: it built
\* a client no other call has, awaits its connect and, once connected, its
\* ping, instead of returning at line 22.
FreshAttempt(c) ==
    /\ client[c] # NULL
    /\ pc[c] \in {"connect", "ping", "returned", "thrown"}
    /\ \A d \in Calls \ {c} : client[d] # client[c]
    /\ pc[c] \in {"ping", "returned"} => client[c] \in open
    /\ pc[c] = "returned" => client[c] \in pinged

\* C4 as stated (reset on failure): db is null when a call rejects because
\* its connect or ping failed, and the first call to start after that
\* rejection makes a fresh attempt.
C4_Original ==
    /\ since = "failed" => db = NULL
    /\ \A c \in Calls : after[c] \in {"failed", "connected"} => FreshAttempt(c)

\* C4 as amended: db is null when a call rejects because its connect or
\* ping failed, and the first call to start after that rejection makes a
\* fresh attempt unless the connect of another call still in flight has
\* resolved in between.
C4_ResetOnFailure ==
    /\ since = "failed" => db = NULL
    /\ \A c \in Calls : after[c] = "failed" => FreshAttempt(c)

\* C4 witness: after a ping failure that reset a populated cache, the next
\* call has built its own client, connected it and is awaiting the ping.
C4_Witness ==
    \E c \in Calls, d \in Calls :
        /\ after[c] = "failed" /\ pc[c] = "ping" /\ client[c] \in open
        /\ pc[d] = "thrown" /\ err[d] = "ConnectionFailure"
        /\ client[d] \in open

\* C5 (populated implies probed): whenever db is non-null, the client it
\* belongs to has passed its ping.
C5_PopulatedImpliesProbed == db # NULL => db \in pinged

\* C6 (racing population): when at least two calls started on an empty
\* cache, no call is in flight any more and one of them returned a handle,
\* db holds a handle whose ping succeeded.
C6_RaceKeepsCache ==
    ( /\ Cardinality(Attempts) >= 2
      /\ InFlight = {}
      /\ \E c \in Attempts : pc[c] = "returned" /\ ret[c] # NULL )
    => (db # NULL /\ db \in pinged)

\* C7 (fail fast on missing credentials): while DB_USER or DB_PASS is
\* unset, every started call has thrown the credentials error, no client
\* was constructed, no connect or ping was attempted and db is null.
C7_FailFastNoCreds ==
    (~DB_USER \/ ~DB_PASS) =>
        /\ nClients = 0
        /\ open = {} /\ pinged = {}
        /\ db = NULL
        /\ \A c \in Calls :
            /\ pc[c] \in {"idle", "thrown"}
            /\ client[c] = NULL
            /\ pc[c] = "thrown" => err[c] = "MissingCredentials"

\* C7 witness: with only DB_PASS unset, a call has thrown.
C7_Witness ==
    /\ DB_USER /\ ~DB_PASS
    /\ \E c \in Calls : pc[c] = "thrown" /\ err[c] = "MissingCredentials"

\* C8 (at most one live handle): at most one connection opened by
\* DbConnect() is open.
C8_AtMostOneLive == Cardinality(open) <= 1

\* The requests whose route has verifyJWT as its first handler and for
\* which it has run.
Verified == { r \in Reqs : route[r] \in GuardedRoutes \cup AdminRoutes
                           /\ invoked[r] # << >> }

\* What a rejection by verifyJWT leaves behind: one 401 response with the
\* message msg, no next() call, no handler invoked after verifyJWT.
RejectedBy401(r, msg) ==
    /\ status[r] = 401
    /\ message[r] = msg
    /\ sent[r] = 1
    /\ nexts[r] = 0
    /\ invoked[r] = <<"verifyJWT">>

\* C9 (stage 1, absent header): a request to a guarded route without an
\* Authorization header is answered 401 "Unauthorized Access Request", and
\* neither the next middleware nor the route body is invoked for it.
C9_AbsentHeader ==
    \A r \in Verified :
        authorization[r] = Undefined
        => RejectedBy401(r, "Unauthorized Access Request")

\* C9 witness: a request to PATCH /update-role (verifyAdmin follows
\* verifyJWT) without the header has been answered 401.
C9_Witness ==
    \E r \in Reqs :
        /\ route[r] \in AdminRoutes
        /\ authorization[r] = Undefined
        /\ status[r] = 401

Whitespace == {SP, TAB}

\* The whitespace-delimited segments of s: its maximal runs of
\* non-whitespace characters, as (first, last) index pairs in order.
WsRuns(s) ==
    { p \in (1..Len(s)) \X (1..Len(s)) :
        /\ p[1] <= p[2]
        /\ \A i \in p[1]..p[2] : s[i] \notin Whitespace
        /\ (p[1] = 1 \/ s[p[1] - 1] \in Whitespace)
        /\ (p[2] = Len(s) \/ s[p[2] + 1] \in Whitespace) }

\* The second whitespace-delimited segment of s, Undefined if s has fewer.
WsSecond(s) ==
    LET runs == WsRuns(s) IN
    IF Cardinality(runs) < 2 THEN Undefined
    ELSE LET p == CHOOSE q \in runs :
                    Cardinality({ o \in runs : o[1] < q[1] }) = 1
         IN SubSeq(s, p[1], p[2])

\* The piece of s between its first space and its next one (or its end),
\* Undefined if s has no space.
SpaceSecond(s) ==
    LET sp == { i \in 1..Len(s) : s[i] = SP } IN
    IF sp = {} THEN Undefined
    ELSE LET i1 == CHOOSE i \in sp : \A j \in sp : i <= j
             rest == sp \ {i1}
             i2 == IF rest = {} THEN Len(s) + 1
                   ELSE CHOOSE i \in rest : \A j \in rest : i <= j
         IN SubSeq(s, i1 + 1, i2 - 1)

\* C10 as stated (stage 1, invalid token): a request whose Authorization
\* header is present and whose second whitespace-delimited segment is
\* missing or fails verification is answered 401 with a message other than
\* the absent-header one, and its route body is not invoked.
C10_Original ==
    \A r \in Verified :
        (authorization[r] # Undefined
         /\ WsSecond(authorization[r]) \notin ValidTokens)
        => /\ status[r] = 401
           /\ message[r] # "Unauthorized Access Request"
           /\ nexts[r] = 0
           /\ invoked[r] = <<"verifyJWT">>

\* C10 as amended: a request whose Authorization header is a non-empty
\* string and whose second segment under split(" ") is missing or fails
\* verification is answered 401 with the token message, which differs from
\* the absent-header one, and its route body is not invoked.
C10_InvalidToken ==
    \A r \in Verified :
        (authorization[r] \notin {Undefined, << >>}
         /\ SpaceSecond(authorization[r]) \notin ValidTokens)
        => /\ RejectedBy401(r, "Unauthorized Access. May be a problem with your token")
           /\ message[r] # "Unauthorized Access Request"

\* C10 witness: a request whose first segment would verify but whose
\* second does not has been answered 401.
C10_Witness ==
    \E r \in Reqs :
        /\ authorization[r] = <<"v", SP, "x">>
        /\ status[r] = 401
        /\ invoked[r] = <<"verifyJWT">>

\* C11 (stage 1, valid token): for a request whose token verifies,
\* verifyJWT writes no response, leaves in req.decoded exactly the payload
\* the token carries, and calls next once.
C11_ValidToken ==
    \A r \in Verified :
        (authorization[r] \notin {Undefined, << >>}
         /\ SpaceSecond(authorization[r]) \in ValidTokens)
        => /\ sent[r] = 0 /\ status[r] = 0
           /\ decoded[r] = Payload(SpaceSecond(authorization[r]))
           /\ nexts[r] = 1

\* C11 witness: the token carrying a role claim next to its email has
\* passed, and both claims are in req.decoded.
C11_Witness ==
    \E r \in Reqs :
        /\ authorization[r] = <<"B", SP, "w">>
        /\ invoked[r] # << >>
        /\ decoded[r] = [email |-> "b@x.com", role |-> "admin"]
        /\ nexts[r] = 1

\* The elements of a sequence.
Range(s) == { s[i] : i \in DOMAIN s }

\* C12 (stage 2 gate): when verifyAdmin's lookup completes, next is called
\* exactly if the first users document with the principal's email has role
\* "admin"; otherwise (no such document, or any other role) the response is
\* 403 "Forbidden Request. Not an admin". The body of an admin route is
\* invoked only for a request whose lookup found role "admin".
C12_AdminGate ==
    [][ /\ \A r \in Reqs :
            (rpc[r] = "admin:find" /\ found'[r] # found[r])
            => LET i == FindOne(users, decoded[r].email) IN
               IF i # 0 /\ users[i].role = "admin"
               THEN /\ nexts'[r] = nexts[r] + 1
                    /\ sent'[r] = sent[r]
                    /\ status'[r] = status[r]
               ELSE /\ nexts'[r] = nexts[r]
                    /\ sent'[r] = sent[r] + 1
                    /\ status'[r] = 403
                    /\ message'[r] = MsgNotAdmin
        /\ \A r \in Reqs :
            (route'[r] \in AdminRoutes /\ "body" \in Range(invoked'[r]))
            => found'[r] = "admin"
        /\ \A r \in Reqs :
            (route'[r] \in AdminRoutes /\ nexts'[r] > 1)
            => found'[r] = "admin"
      ]_vars

\* C12 witness: a principal whose token carries no admin claim but whose
\* users document has role "admin" reached the body of PATCH /update-role.
C12_Witness ==
    \E r \in Reqs :
        /\ route[r] = "PATCH /update-role"
        /\ decoded[r].role # "admin"
        /\ found[r] = "admin"
        /\ invoked[r] = <<"verifyJWT", "verifyAdmin", "body">>

\* C12, the failing cases: a request without a users document, and one
\* whose document has another role, were answered 403 before the body.
C12_WitnessMissing ==
    \E r \in Reqs :
        /\ found[r] = "null"
        /\ status[r] = 403
        /\ invoked[r] = <<"verifyJWT", "verifyAdmin">>

\* The requests whose verifyAdmin ended without a completed lookup:
\* DbConnect() or findOne threw.
AdminFailed ==
    { r \in Reqs : /\ "verifyAdmin" \in Range(invoked[r])
                   /\ rpc[r] \in {"done", "rejected"}
                   /\ found[r] = "none" }

\* C13 (stage 2, cache failure): a request whose DbConnect() or role lookup
\* threw inside verifyAdmin is answered 500, never 403, and its route body
\* is not invoked; a 403 of verifyAdmin follows a completed lookup.
C13_FailureIs500 ==
    /\ \A r \in AdminFailed :
        /\ status[r] = 500
        /\ sent[r] = 1
        /\ "body" \notin Range(invoked[r])
    /\ \A r \in Reqs :
        (status[r] = 403 /\ message[r] = MsgNotAdmin) => found[r] # "none"

\* s is an initial part of t.
IsPrefix(s, t) ==
    /\ Len(s) <= Len(t)
    /\ \A i \in 1..Len(s) : s[i] = t[i]

\* C14 (pipeline ordering): for a PATCH /update-role request the handlers
\* run in the order verifyJWT, verifyAdmin, body; verifyAdmin starts only
\* after verifyJWT passed, the body starts only after verifyAdmin's lookup
\* completed and passed, and the update is issued only by the body.
C14_PipelineOrder ==
    \A r \in Reqs :
        route[r] = "PATCH /update-role" =>
            /\ IsPrefix(invoked[r], <<"verifyJWT", "verifyAdmin", "body">>)
            /\ Len(invoked[r]) >= 2
               => /\ decoded[r] # NoPrincipal
                  /\ nexts[r] >= 1
            /\ Len(invoked[r]) >= 3
               => /\ found[r] = "admin"
                  /\ nexts[r] = 2
            /\ ops[r] # << >>
               => /\ Len(invoked[r]) = 3
                  /\ ops[r] = <<"users.updateOne">>
            /\ (status[r] \in {401, 403} \/ found[r] \notin {"none", "admin"})
               => ops[r] = << >>

\* C14 witness: an update was issued by a request that went through both
\* stages while another DbConnect() call was in flight.
C14_Witness ==
    \E r \in Reqs :
        /\ route[r] = "PATCH /update-role"
        /\ invoked[r] = <<"verifyJWT", "verifyAdmin", "body">>
        /\ ops[r] = <<"users.updateOne">>
        /\ \E c \in Calls : pc[c] \in {"connect", "ping"}

\* The requests whose verifyAdmin has ended, whatever its outcome.
AdminEnded ==
    { r \in Reqs : /\ "verifyAdmin" \in Range(invoked[r])
                   /\ rpc[r] \notin {"admin:db", "admin:find"} }

\* C15 as stated (exactly one role lookup): every request whose verifyAdmin
\* has ended made exactly one findOne on users in that stage.
C15_Original ==
    \A r \in AdminEnded : lookups[r] = 1

\* C15 amended: verifyAdmin makes at most one findOne; exactly one when its
\* DbConnect() resolved with a handle, and none, with a 500 response, when
\* DbConnect() threw or resolved with null. Route bodies add none.
C15_OneLookupAfterConnect ==
    \A r \in Reqs :
        /\ lookups[r] <= 1
        /\ r \in AdminEnded =>
            IF Len(invoked[r]) = 2 /\ Awaited(r) # "ok"
            THEN lookups[r] = 0 /\ status[r] = 500
            ELSE lookups[r] = 1
        /\ "verifyAdmin" \notin Range(invoked[r]) => lookups[r] = 0

\* C15 witness: verifyAdmin ended with 500 because DbConnect() threw, and
\* no findOne was made.
C15_Witness ==
    \E r \in AdminEnded :
        /\ pc[callOf[r]] = "thrown"
        /\ lookups[r] = 0
        /\ status[r] = 500

\* C15, the other case: the body's update resolved after one lookup.
C15_WitnessOne ==
    \E r \in AdminEnded :
        /\ status[r] = 200
        /\ lookups[r] = 1

\* The steps in which verifyJWT runs for r.
JWTStep(r) ==
    /\ invoked[r] = << >>
    /\ invoked'[r] = <<"verifyJWT">>

\* C16 (stage 1 leaves the connection cache alone): a verifyJWT step, with
\* any of its three outcomes, starts no DbConnect() call, constructs and
\* connects no client, completes no ping and leaves db as it is; apart from
\* the response of a rejection and the next() of a pass, the only thing it
\* changes is req.decoded of the passing request.
C16_JWTLeavesCache ==
    [][ \A r \in Reqs :
            JWTStep(r) =>
                /\ UNCHANGED <<db, nClients, open, pinged, pc, client, ret, err>>
                /\ UNCHANGED <<DB_USER, DB_PASS>>
                /\ UNCHANGED <<users, callOf, lookups, found, ops, result, param>>
                /\ UNCHANGED <<resolved, adds>>
                /\ UNCHANGED <<route, authorization>>
                /\ \A q \in Reqs \ {r} : decoded'[q] = decoded[q]
                /\ \/ /\ status'[r] = 401
                      /\ decoded'[r] = decoded[r]
                      /\ nexts'[r] = nexts[r]
                   \/ /\ status'[r] = status[r]
                      /\ sent'[r] = sent[r]
                      /\ nexts'[r] = nexts[r] + 1
      ]_vars

\* C16 witness: verifyJWT has passed a request and nothing else has run
\* for it, while the cache holds a handle and a DbConnect() call of
\* another caller is awaiting its ping.
C16_Witness ==
    \E r \in Reqs :
        /\ invoked[r] = <<"verifyJWT">>
        /\ decoded[r] # NoPrincipal
        /\ callOf[r] = 0
        /\ db # NULL
        /\ \E c \in Calls : pc[c] = "ping"

\* C17 (cart deletion, hard reject): a DELETE /delete-cart-item/:id request
\* whose body ran with req.decoded.email different from the userEmail query
\* parameter is answered 403 and issues no deleteOne.
C17_HardReject ==
    \A r \in Reqs :
        (/\ route[r] = "DELETE /delete-cart-item/:id"
         /\ "body" \in Range(invoked[r])
         /\ decoded[r].email # param[r].userEmail)
        => /\ status[r] = 403
           /\ "cart.deleteOne" \notin Range(ops[r])

\* The eight routes the claim lists as gated by stage 1 alone.
Stage1Only ==
    { "GET /users", "GET /cart-data", "POST /add-to-cart",
      "DELETE /delete-cart-item/:id", "POST /create-payment-intent",
      "POST /payments", "GET /payment-history", "GET /enrolled-classes" }

\* The header of r carries a token that verifies.
HasValidToken(r) ==
    /\ authorization[r] \notin {Undefined, << >>}
    /\ SpaceSecond(authorization[r]) \in ValidTokens

C19_ErrorShape ==
    \A r \in Reqs :
        /\ status[r] \in {401, 403} => (error[r] = TRUE /\ message[r] # "")
        /\ status[r] = 500 => (error[r] = TRUE /\ message[r] = "Internal server error")
        /\ status[r] \in {0, 200, 401, 403, 500}

\* C19 witness: a route body answered 500 after its DbConnect() call was
\* rejected with a connection failure.
C19_Witness ==
    \E r \in Reqs :
        /\ status[r] = 500
        /\ "body" \in Range(invoked[r])
        /\ callOf[r] \in Calls
        /\ pc[callOf[r]] = "thrown"
        /\ err[callOf[r]] = "ConnectionFailure"

\* C20 (GET /users is admin only): a request that received the user list
\* comes from a principal whose users document has role "admin".
C20_UsersAdminOnly ==
    \A r \in Reqs :
        (route[r] = "GET /users" /\ status[r] = 200 /\ result[r] = "users.find")
        => LET i == FindOne(users, decoded[r].email) IN
           i # 0 /\ users[i].role = "admin"

\* The steps in which the update of an update-role request r resolves and
\* its response goes out.
UpdateCompletes(r) ==
    /\ route[r] = "PATCH /update-role"
    /\ rpc[r] = "body:op"
    /\ status'[r] = 200

\* C21 (no role caching): the users collection changes only when an
\* update-role completes, and then holds the role the request asked for;
\* whenever a lookup of verifyAdmin resolves, the request is passed or
\* answered 403 by the role its principal's document holds at that moment,
\* whatever requests were served before.
C21_NoRoleCaching ==
    [][ /\ \A r \in Reqs :
            UpdateCompletes(r) =>
                /\ Len(users') = Len(users)
                /\ \A i \in 1..Len(users) :
                    /\ users'[i].email = users[i].email
                    /\ users'[i].role = IF i = param[r].id THEN param[r].role
                                        ELSE users[i].role
        /\ users' # users => \E r \in Reqs : UpdateCompletes(r)
        /\ \A r \in Reqs :
            (rpc[r] = "admin:find" /\ found'[r] # found[r])
            => LET i == FindOne(users', decoded[r].email) IN
               IF i # 0 /\ users'[i].role = "admin"
               THEN nexts'[r] = nexts[r] + 1 /\ status'[r] = 0
               ELSE nexts'[r] = nexts[r] /\ status'[r] = 403
      ]_vars

\* C21 witness: a@x.com, admin at the start, was changed to student by a
\* completed update-role, and a later request of a@x.com was answered 403.
C21_Witness ==
    /\ users = <<[email |-> "a@x.com", role |-> "student"],
                 [email |-> "b@x.com", role |-> "student"]>>
    /\ \E r \in Reqs :
        /\ decoded[r].email = "a@x.com"
        /\ found[r] = "student"
        /\ status[r] = 403

\* C21, the other direction: b@x.com, student at the start, was changed to
\* admin and its later request was passed by verifyAdmin.
C21_WitnessPromoted ==
    /\ users = <<[email |-> "a@x.com", role |-> "admin"],
                 [email |-> "b@x.com", role |-> "admin"]>>
    /\ \E r \in Reqs :
        /\ decoded[r].email = "b@x.com"
        /\ found[r] = "admin"
        /\ nexts[r] = 2

\* What stage 2 answers a principal with email e against collection coll,
\* as a function of these two alone.
Stage2Outcome(e, coll) ==
    LET hits == { i \in 1..Len(coll) : coll[i].email = e } IN
    IF hits # {} /\ coll[CHOOSE i \in hits : \A j \in hits : i <= j].role = "admin"
    THEN "pass"
    ELSE "403"

\* The valid tokens that carry the email of req.decoded of r.
SameEmail(r) ==
    { t \in ValidTokens : Payload(t).email = decoded[r].email }

\* C24 (stage 2 depends on the email claim and the stored role only): when
\* a lookup of verifyAdmin resolves, the request is passed or answered 403
\* as every valid token with the same email would be against the same
\* users collection, whatever other claims its own token carries.
C24_EmailOnly ==
    [][ \A r \in Reqs :
            (rpc[r] = "admin:find" /\ found'[r] # found[r])
            => \A t \in SameEmail(r) :
                 IF Stage2Outcome(Payload(t).email, users) = "pass"
                 THEN nexts'[r] = nexts[r] + 1 /\ status'[r] = 0
                 ELSE nexts'[r] = nexts[r] /\ status'[r] = 403
      ]_vars

\* C24 witness: the token of a@x.com that carries a role claim "admin" was
\* answered 403, a@x.com being a student in the users collection.
C24_Witness ==
    \E r \in Reqs :
        /\ authorization[r] = <<"B", SP, "u">>
        /\ decoded[r] = [email |-> "a@x.com", role |-> "admin"]
        /\ Cardinality(SameEmail(r)) = 2
        /\ found[r] = "student"
        /\ status[r] = 403
        /\ nexts[r] = 1

\* The operations a POST /payments request has issued when all of them are
\* out: the insert, the cart deletion, one decrement per ordered class.
PaymentOps ==
    <<"payments.insertOne", "cart.deleteMany">>
    \o [i \in 1..Ordered |-> "classes.updateOne"]

\* C22 (payment completion ordering, index.js): a POST /payments request
\* has its success response only when the insert, the cart deletion and
\* the decrement of every ordered class have completed; a step in which
\* one of its operations fails answers 500, and a request answered 500 has
\* no success response.
C22_PaymentOrdering ==
    [][ \A r \in Reqs :
            route'[r] = "POST /payments" =>
                /\ status'[r] = 200
                   => /\ ops'[r] = PaymentOps
                      /\ resolved'[r] = Ordered
                      /\ sent'[r] = 1
                /\ status'[r] = 500
                   => /\ result'[r] = "none"
                      /\ sent'[r] = 1
                /\ (/\ rpc[r] \in {"body:op", "body:all"}
                    /\ rpc'[r] = "done"
                    /\ ~(rpc[r] = "body:all" /\ resolved'[r] = Ordered))
                   => status'[r] = 500
      ]_vars

\* C22 witness: the success response of a payment went out after both
\* decrements resolved.
C22_Witness ==
    \E r \in Reqs :
        /\ route[r] = "POST /payments"
        /\ status[r] = 200
        /\ resolved[r] = 2
        /\ ops[r] = PaymentOps

\* C22, the failing case: one decrement resolved, the other was rejected,
\* and the response is 500.
C22_WitnessFailed ==
    \E r \in Reqs :
        /\ route[r] = "POST /payments"
        /\ status[r] = 500
        /\ resolved[r] = 1
        /\ ops[r] = PaymentOps

\* A middleware stage has answered r: verifyJWT with 401, or verifyAdmin
\* with 403 or 500.
StageRejected(r) ==
    /\ sent[r] > 0
    /\ "body" \notin Range(invoked[r])

\* Everything the handlers of r read or write.
OfRequest(r) ==
    <<invoked[r], nexts[r], status[r], message[r], sent[r], error[r],
      decoded[r], rpc[r], callOf[r], lookups[r], found[r], ops[r],
      result[r], resolved[r]>>

\* C23 (at most one response per request): no request gets a second
\* response from verifyJWT, verifyAdmin and its route body together, and
\* once a middleware stage has written a rejection no handler runs for the
\* request again: no lookup, no DbConnect() call, no operation, no next().
C23_OneResponse ==
    [][ \A r \in Reqs :
            /\ sent'[r] <= 1
            /\ StageRejected(r) => OfRequest(r)' = OfRequest(r)
            /\ sent[r] = 1 => (status'[r] = status[r] /\ message'[r] = message[r])
      ]_vars

\* C23 witness: verifyAdmin answered 403 and the request went no further,
\* while the cache moved on.
C23_Witness ==
    \E r \in Reqs :
        /\ status[r] = 403
        /\ message[r] = MsgNotAdmin
        /\ sent[r] = 1
        /\ invoked[r] = <<"verifyJWT", "verifyAdmin">>
        /\ \E c \in Calls : c > callOf[r] /\ pc[c] # "idle"

\* C25 (user uniqueness by email): whatever POST /add-user requests were
\* served and however they interleaved, the users collection holds at
\* most one record per email.
C25_UniqueEmail ==
    \A i, j \in 1..Len(users) :
        users[i].email = users[j].email => i = j

====
